---- MODULE Spec2Model ----
(***************************************************************************)
(* Birthday Picker PCF control: the calendar / option / filter utilities   *)
(* of birthdayPickerUtils.ts, the React component of BirthdayPicker.tsx    *)
(* and the PCF host class of index.ts.                                     *)
(*                                                                         *)
(* Text is a sequence of one-character strings, so that formatting,       *)
(* parsing, trimming and searching are computed character by character.   *)
(* A JavaScript number|undefined is an integer or Undefined; a            *)
(* string|null is a text or Null; a DateParts|null is a record or         *)
(* NullParts.                                                              *)
(***************************************************************************)
EXTENDS Integers, Sequences, FiniteSets, TLC

VARIABLES
    \* ---- utility calls (pure functions of birthdayPickerUtils.ts)
    fn,                         \* the function applied, "none" before the call
    args,                       \* its inputs
    ret,                        \* its result
    \* ---- host (index.ts)
    raw,                        \* context.parameters.dateValue.raw
    minYearRaw,                 \* context.parameters.minYear.raw
    currentValue,               \* BirthdayPicker.currentValue
    notified,                   \* notifyOutputChanged() called, getOutputs due
    mounted,                    \* the component has been rendered once
    \* ---- props
    value, minYear, today, disabled,
    \* ---- component state (BirthdayPicker.tsx)
    selectedYear, selectedMonth, selectedDay,
    yearInput, monthInput, dayInput,
    yearFilter, monthFilter, dayFilter,
    lastEmittedRef, lastChangeWasInternalRef,
    rendered,                   \* the effect dependencies of the last committed render
    focus,                      \* the input that has the keyboard focus, "none" if none
    emitted                     \* what the last effect pass handed to onValueChange

utilVars == <<fn, args, ret>>
hostVars == <<raw, minYearRaw, currentValue, notified, mounted>>
propVars == <<value, minYear, today, disabled>>
selVars == <<selectedYear, selectedMonth, selectedDay>>
inputVars == <<yearInput, monthInput, dayInput>>
filterVars == <<yearFilter, monthFilter, dayFilter>>
refVars == <<lastEmittedRef, lastChangeWasInternalRef>>
compVars ==
    <<hostVars, propVars, selVars, inputVars, filterVars, refVars, rendered, focus, emitted>>
vars == <<utilVars, compVars>>

----------------------------------------------------------------------------
(* JavaScript values *)

Undefined == -1
Null == <<"null">>
NullParts == [null |-> TRUE]
DateParts(y, m, d) == [year |-> y, month |-> m, day |-> d]

\* !x for a number | undefined
FalsyNum(x) == x = Undefined \/ x = 0
\* !x for a string | null
FalsyText(x) == x = Null \/ x = <<>>

\* a % b of JavaScript: the remainder takes the sign of the dividend
JsRem(a, b) == IF a >= 0 THEN a % b ELSE 0 - ((0 - a) % b)

Min(a, b) == IF a <= b THEN a ELSE b
Max(a, b) == IF a >= b THEN a ELSE b

----------------------------------------------------------------------------
(* Text *)

DigitChars == <<"0", "1", "2", "3", "4", "5", "6", "7", "8", "9">>
IsDigit(c) == \E i \in 1..Len(DigitChars) : DigitChars[i] = c
DigitValue(c) == (CHOOSE i \in 1..Len(DigitChars) : DigitChars[i] = c) - 1

\* Number.prototype.toString() of an integer
RECURSIVE NatToString(_)
NatToString(n) ==
    IF n < Len(DigitChars) THEN <<DigitChars[n + 1]>>
    ELSE NatToString(n \div Len(DigitChars)) \o <<DigitChars[(n % Len(DigitChars)) + 1]>>
\* the decimal texts of lo..hi, computed once
RECURSIVE TextsBetween(_, _)
TextsBetween(lo, hi) ==
    IF lo > hi THEN <<>>
    ELSE IF lo = hi THEN <<NatToString(lo)>>
    ELSE TextsBetween(lo, (lo + hi) \div 2) \o TextsBetween(((lo + hi) \div 2) + 1, hi)
DecimalTexts == TextsBetween(0, 2047)
NumToString(n) ==
    IF n < 0 THEN <<"-">> \o NatToString(0 - n)
    ELSE IF n < Len(DecimalTexts) THEN DecimalTexts[n + 1]
    ELSE NatToString(n)

\* Number(s) of a text made of decimal digits only
RECURSIVE DigitsToNumber(_)
DigitsToNumber(s) ==
    IF s = <<>> THEN 0
    ELSE DigitsToNumber(SubSeq(s, 1, Len(s) - 1)) * Len(DigitChars) + DigitValue(s[Len(s)])

\* String.prototype.padStart(width, pad) with a one-character pad
RECURSIVE PadStart(_, _, _)
PadStart(s, width, pad) == IF Len(s) >= width THEN s ELSE PadStart(<<pad>> \o s, width, pad)

IsSpace(c) == c \in {" ", "\t", "\n"}
\* String.prototype.trim()
RECURSIVE TrimStart(_)
TrimStart(s) == IF s # <<>> /\ IsSpace(s[1]) THEN TrimStart(Tail(s)) ELSE s
RECURSIVE TrimEnd(_)
TrimEnd(s) == IF s # <<>> /\ IsSpace(s[Len(s)]) THEN TrimEnd(SubSeq(s, 1, Len(s) - 1)) ELSE s
Trim(s) == TrimEnd(TrimStart(s))

UpperChars == <<"A", "D", "F", "J", "M", "N", "O", "S">>
LowerChars == <<"a", "d", "f", "j", "m", "n", "o", "s">>
LowerChar(c) ==
    IF \E i \in 1..Len(UpperChars) : UpperChars[i] = c
    THEN LowerChars[CHOOSE i \in 1..Len(UpperChars) : UpperChars[i] = c]
    ELSE c
\* String.prototype.toLowerCase()
RECURSIVE ToLowerCase(_)
ToLowerCase(s) == IF s = <<>> THEN <<>> ELSE <<LowerChar(Head(s))>> \o ToLowerCase(Tail(s))

\* String.prototype.startsWith / includes
StartsWith(s, p) == Len(p) <= Len(s) /\ SubSeq(s, 1, Len(p)) = p
Includes(s, p) == \E k \in 0..(Len(s) - Len(p)) : SubSeq(s, k + 1, k + Len(p)) = p

\* Array.prototype.filter
FilterSeq(s, Keep(_)) == SelectSeq(s, Keep)

----------------------------------------------------------------------------
(* Calendar Engine: birthdayPickerUtils.ts *)

DEFAULT_MIN_YEAR == 1901
FALLBACK_YEAR == 2001

toTwoDigit(v) == PadStart(NumToString(v), 2, "0")

formatIsoDate(year, month, day) ==
    NumToString(year) \o <<"-">> \o toTwoDigit(month) \o <<"-">> \o toTwoDigit(day)

\* /^(\d{4})-(\d{2})-(\d{2})$/ : the three captured groups, or <<>> when no match
IsoMatch(v) ==
    LET digitsAt(a, b) == \A i \in a..b : IsDigit(v[i])
    IN  IF /\ Len(v) = 10
           /\ digitsAt(1, 4) /\ v[5] = "-"
           /\ digitsAt(6, 7) /\ v[8] = "-"
           /\ digitsAt(9, 10)
        THEN <<SubSeq(v, 1, 4), SubSeq(v, 6, 7), SubSeq(v, 9, 10)>>
        ELSE <<>>

\* parseIsoDate that also checks the day against an assumed 30-day month
parseIsoDate_DayTo30(v) ==
    IF FalsyText(v) THEN NullParts
    ELSE LET match == IsoMatch(v)
         IN  IF match = <<>> THEN NullParts
             ELSE LET year == DigitsToNumber(match[1])
                      month == DigitsToNumber(match[2])
                      day == DigitsToNumber(match[3])
                  IN  IF year = 0 \/ month < 1 \/ month > 12 \/ day < 1 \/ day > 30
                      THEN NullParts
                      ELSE DateParts(year, month, day)

parseIsoDate(v) ==
    IF FalsyText(v) THEN NullParts
    ELSE LET match == IsoMatch(v)
         IN  IF match = <<>> THEN NullParts
             ELSE LET year == DigitsToNumber(match[1])
                      month == DigitsToNumber(match[2])
                      day == DigitsToNumber(match[3])
                  IN  IF year = 0 \/ month < 1 \/ month > 12 \/ day < 1 \/ day > 31
                      THEN NullParts
                      ELSE DateParts(year, month, day)

\* value is a Date (its local year, month, day as DateParts) or NullParts
dateToIso(v) == IF v = NullParts THEN Null ELSE formatIsoDate(v.year, v.month, v.day)

\* isLeapYear without the century rule
isLeapYear_Julian(year) == JsRem(year, 4) = 0

isLeapYear(year) ==
    IF JsRem(year, 400) = 0 THEN TRUE
    ELSE IF JsRem(year, 100) = 0 THEN FALSE
    ELSE JsRem(year, 4) = 0

getDaysInMonth(year, month) ==
    CASE month = 2 -> (IF isLeapYear(year) THEN 29 ELSE 28)
      [] month \in {4, 6, 9, 11} -> 30
      [] OTHER -> 31

----------------------------------------------------------------------------
(* Range Policy *)

\* getMaxMonthForYear that forgets the current-year limit
getMaxMonthForYear_NoLimit(selYear, tdy) == 12

getMaxMonthForYear(selYear, tdy) ==
    IF FalsyNum(selYear) THEN 12
    ELSE IF selYear = tdy.year THEN tdy.month ELSE 12

\* getMaxDayForSelection that compares the effective year with today's
getMaxDayForSelection_Effective(selYear, selMonth, tdy) ==
    IF FalsyNum(selMonth) THEN 31
    ELSE LET year == IF selYear = Undefined THEN FALLBACK_YEAR ELSE selYear
             maxByMonth == getDaysInMonth(year, selMonth)
         IN  IF year = tdy.year /\ selMonth = tdy.month
             THEN Min(tdy.day, maxByMonth)
             ELSE maxByMonth

getMaxDayForSelection(selYear, selMonth, tdy) ==
    IF FalsyNum(selMonth) THEN 31
    ELSE LET year == IF selYear = Undefined THEN FALLBACK_YEAR ELSE selYear
             maxByMonth == getDaysInMonth(year, selMonth)
         IN  IF selYear = tdy.year /\ selMonth = tdy.month
             THEN Min(tdy.day, maxByMonth)
             ELSE maxByMonth

----------------------------------------------------------------------------
(* Option Builder *)

\* a TLA+ string as text
RECURSIVE Chars(_)
Chars(s) == IF Len(s) = 0 THEN <<>> ELSE <<SubSeq(s, 1, 1)>> \o Chars(SubSeq(s, 2, Len(s)))

\* for (let year = maxYear; year >= start; year -= 1) years.push(year)
RECURSIVE YearLoop(_, _)
YearLoop(year, start) == IF year >= start THEN <<year>> \o YearLoop(year - 1, start) ELSE <<>>

\* buildYearOptions that trusts minYear <= maxYear
buildYearOptions_NoMin(minY, maxY) == YearLoop(maxY, minY)

buildYearOptions(minY, maxY) == YearLoop(maxY, Min(minY, maxY))

\* Intl.DateTimeFormat(locale, {month: "long", timeZone: "UTC"}): the long month
\* names of the locales the runtime knows
IntlMonthNames ==
    [l \in {"en-AU", "fr-FR"} |->
        IF l = "en-AU"
        THEN <<Chars("January"), Chars("February"), Chars("March"), Chars("April"),
               Chars("May"), Chars("June"), Chars("July"), Chars("August"),
               Chars("September"), Chars("October"), Chars("November"), Chars("December")>>
        ELSE <<Chars("janvier"), Chars("fevrier"), Chars("mars"), Chars("avril"),
               Chars("mai"), Chars("juin"), Chars("juillet"), Chars("aout"),
               Chars("septembre"), Chars("octobre"), Chars("novembre"), Chars("decembre")>>]

\* new Intl.DateTimeFormat(locale) throws for a locale it does not know
resolvedLocale(locale) == IF locale \in DOMAIN IntlMonthNames THEN locale ELSE "en-AU"

\* formatter.format(new Date(Date.UTC(2020, index, 1))), index from 0
formatMonth(locale, index) == IntlMonthNames[resolvedLocale(locale)][index + 1]

\* the supplied names taken as they are, blank or not
RECURSIVE suppliedNames_KeepBlank(_, _, _)
suppliedNames_KeepBlank(locale, names, i) ==
    IF i > Len(names) THEN <<>>
    ELSE <<names[i]>> \o suppliedNames_KeepBlank(locale, names, i + 1)

\* monthNames.slice(0, 12).map((name, index) => name && name.trim().length > 0
\*     ? name : formatter.format(...)), from position i on
RECURSIVE suppliedNames(_, _, _)
suppliedNames(locale, names, i) ==
    IF i > Len(names) THEN <<>>
    ELSE <<IF ~FalsyText(names[i]) /\ Len(Trim(names[i])) > 0 THEN names[i]
           ELSE formatMonth(locale, i - 1)>> \o suppliedNames(locale, names, i + 1)

\* Array.from({length}, (_, index) => formatter.format(...)), from index on
RECURSIVE formattedNames(_, _, _)
formattedNames(locale, length, index) ==
    IF index >= length THEN <<>>
    ELSE <<formatMonth(locale, index)>> \o formattedNames(locale, length, index + 1)

\* names.map((label, index) => ({value: index + 1, label})), from position i on
RECURSIVE toMonthOptions(_, _)
toMonthOptions(names, i) ==
    IF i > Len(names) THEN <<>>
    ELSE <<[value |-> i, label |-> names[i]]>> \o toMonthOptions(names, i + 1)

\* monthNames is Null (absent) or a sequence of texts
buildMonthOptions(locale, monthNames) ==
    LET names ==
            IF monthNames # Null /\ Len(monthNames) >= 12
            THEN suppliedNames(locale, SubSeq(monthNames, 1, 12), 1)
            ELSE formattedNames(locale, 12, 0)
    IN  toMonthOptions(names, 1)

\* getMonthLabelMap(options).get(month): the label, or Null when the map has no entry
monthLabel(options, month) ==
    IF \E i \in 1..Len(options) : options[i].value = month
    THEN options[CHOOSE i \in 1..Len(options) :
                    /\ options[i].value = month
                    /\ \A j \in (i + 1)..Len(options) : options[j].value # month].label
    ELSE Null

----------------------------------------------------------------------------
(* Availability Filter *)

\* getAvailableMonths that leaves the limit month out
getAvailableMonths_Strict(options, selYear, tdy) ==
    LET maxMonth == getMaxMonthForYear(selYear, tdy)
        Keep(option) == option.value < maxMonth
    IN  FilterSeq(options, Keep)

getAvailableMonths(options, selYear, tdy) ==
    LET maxMonth == getMaxMonthForYear(selYear, tdy)
        Keep(option) == option.value <= maxMonth
    IN  FilterSeq(options, Keep)

\* Array.from({length}, (_, index) => index + 1)
dayRange(length) == [position \in 1..length |-> (position - 1) + 1]

\* getAvailableDays that ignores the limit of the selection
getAvailableDays_Full(selYear, selMonth, tdy) == dayRange(31)

getAvailableDays(selYear, selMonth, tdy) ==
    IF FalsyNum(selMonth) THEN dayRange(31)
    ELSE LET maxDay == getMaxDayForSelection(selYear, selMonth, tdy)
         IN  dayRange(maxDay)

----------------------------------------------------------------------------
(* Typeahead Filter *)

\* normalizeFilterText that does not trim
normalizeFilterText_NoTrim(v) == ToLowerCase(v)

normalizeFilterText(v) == ToLowerCase(Trim(v))

filterMonthOptions(options, input) ==
    LET filter == normalizeFilterText(input)
        Keep(option) == Includes(ToLowerCase(option.label), filter)
    IN  IF filter = <<>> THEN options ELSE FilterSeq(options, Keep)

\* filterNumberOptions that matches at the start only
filterNumberOptions_Prefix(options, input) ==
    LET filter == normalizeFilterText(input)
        Keep(v) == StartsWith(NumToString(v), filter)
    IN  IF filter = <<>> THEN options ELSE FilterSeq(options, Keep)

filterNumberOptions(options, input) ==
    LET filter == normalizeFilterText(input)
        Keep(v) == Includes(NumToString(v), filter)
    IN  IF filter = <<>> THEN options ELSE FilterSeq(options, Keep)

\* filterYearOptions that matches anywhere
filterYearOptions_Anywhere(options, input) ==
    LET filter == normalizeFilterText(input)
        Keep(v) == Includes(NumToString(v), filter)
    IN  IF filter = <<>> THEN options ELSE FilterSeq(options, Keep)

filterYearOptions(options, input) ==
    LET filter == normalizeFilterText(input)
        Keep(v) == StartsWith(NumToString(v), filter)
    IN  IF filter = <<>> THEN options ELSE FilterSeq(options, Keep)

----------------------------------------------------------------------------
(* Bounds of the model *)

\* the configured minimum year lies this many years before today's year
YearSpan == 2

\* the wall clock of a session
Todays == {DateParts(2024, 6, 10)}

\* what the user types into the Year, Month and Day inputs
TypedYearTexts(tdy) ==
    {<<>>, Chars("20"), <<" ">> \o NumToString(tdy.year - 1), NumToString(tdy.year + 1)}
TypedMonthTexts == {<<>>, Chars("ma")}
TypedDayTexts == {<<>>, Chars("0"), Chars("3"), Chars("31 ")}

\* the options the user clicks, among those offered
PickMonths == {2, 6, 7}
PickDays == {10, 11, 29}

\* the bound column's value as the form supplies it: a Date or none
ExternalDates(tdy) ==
    {NullParts, DateParts(tdy.year - 1, 2, 28), DateParts(tdy.year + 1, 1, 31)}

----------------------------------------------------------------------------
(* Host: index.ts *)

\* new Date(year, monthIndex, day): years 0..99 mean 1900..1999, and a day past the
\* end of the month rolls into the next month
NewDate(year, monthIndex, day) ==
    LET y == IF year \in 0..99 THEN 1900 + year ELSE year
        dim == getDaysInMonth(y, monthIndex + 1)
    IN  IF day <= dim THEN DateParts(y, monthIndex + 1, day)
        ELSE IF monthIndex + 1 = 12 THEN DateParts(y + 1, 1, day - dim)
        ELSE DateParts(y, monthIndex + 2, day - dim)

\* the Date handed to the framework, NullParts for undefined
toDateValue(v) ==
    IF FalsyText(v) THEN NullParts
    ELSE LET parsed == parseIsoDate(v)
         IN  IF parsed = NullParts THEN NullParts
             ELSE NewDate(parsed.year, parsed.month - 1, parsed.day)

\* Math.min(Math.max(minYearParsed, DEFAULT_MIN_YEAR), now.year)
hostMinYear(minRaw, now) ==
    LET minYearParsed == IF minRaw = Undefined THEN DEFAULT_MIN_YEAR ELSE minRaw
    IN  Min(Max(minYearParsed, DEFAULT_MIN_YEAR), now.year)

\* handleValueChange(v): the host's <<currentValue, notified>> after the call
handleValueChange(v, cur, ntf) == IF v = cur THEN <<cur, ntf>> ELSE <<v, TRUE>>

----------------------------------------------------------------------------
(* Component: BirthdayPicker.tsx *)

Locale == "en-AU"
MonthNamesProp == Null

yearOptions == buildYearOptions(minYear, today.year)
monthOptions == buildMonthOptions(Locale, MonthNamesProp)
\* monthLabelMap.get(month) ?? month.toString()
monthLabelOr(month) ==
    LET label == monthLabel(monthOptions, month)
    IN  IF label = Null THEN NumToString(month) ELSE label

availableMonths == getAvailableMonths(monthOptions, selectedYear, today)
availableDays == getAvailableDays(selectedYear, selectedMonth, today)
filteredMonths == filterMonthOptions(availableMonths, monthFilter)
filteredDays == filterNumberOptions(availableDays, dayFilter)
filteredYears == filterYearOptions(yearOptions, yearFilter)

dayDisabled == disabled

\* computedIso that does not wait for the day
computedIso_YearMonth(y, m, d) ==
    IF ~FalsyNum(y) /\ ~FalsyNum(m) THEN formatIsoDate(y, m, Max(d, 1)) ELSE Null

computedIso(y, m, d) ==
    IF ~FalsyNum(y) /\ ~FalsyNum(m) /\ ~FalsyNum(d) THEN formatIsoDate(y, m, d) ELSE Null

\* parseNumericInput: the number, or Undefined for null
parseNumericInput(v) ==
    LET trimmed == Trim(v)
    IN  IF trimmed = <<>> THEN Undefined
        ELSE IF ~(\A i \in 1..Len(trimmed) : IsDigit(trimmed[i])) THEN Undefined
        ELSE DigitsToNumber(trimmed)

\* the state of the component as one record
CompState ==
    [selectedYear |-> selectedYear, selectedMonth |-> selectedMonth,
     selectedDay |-> selectedDay,
     yearInput |-> yearInput, monthInput |-> monthInput, dayInput |-> dayInput,
     yearFilter |-> yearFilter, monthFilter |-> monthFilter, dayFilter |-> dayFilter]

SetCompState(s) ==
    /\ selectedYear' = s.selectedYear
    /\ selectedMonth' = s.selectedMonth
    /\ selectedDay' = s.selectedDay
    /\ yearInput' = s.yearInput
    /\ monthInput' = s.monthInput
    /\ dayInput' = s.dayInput
    /\ yearFilter' = s.yearFilter
    /\ monthFilter' = s.monthFilter
    /\ dayFilter' = s.dayFilter

setYearSelection(s, year) ==
    [s EXCEPT !.selectedYear = year,
              !.yearInput = IF FalsyNum(year) THEN <<>> ELSE NumToString(year),
              !.yearFilter = <<>>]

setMonthSelection(s, month) ==
    [s EXCEPT !.selectedMonth = month,
              !.monthInput = IF FalsyNum(month) THEN <<>> ELSE monthLabelOr(month),
              !.monthFilter = <<>>]

setDaySelection(s, day) ==
    [s EXCEPT !.selectedDay = day,
              !.dayInput = IF FalsyNum(day) THEN <<>> ELSE NumToString(day),
              !.dayFilter = <<>>]

----------------------------------------------------------------------------
(* Effects.  Each runs with the state r of the render it belongs to, and  *)
(* adds its updates to acc: the state being scheduled (st), the two refs  *)
(* (last, internal), the host's fields (cur, ntf) and the emission.       *)

NotRendered == [none |-> TRUE]
NoEmit == [none |-> TRUE]

\* the values the dependency lists of the effects name
DepNames == {"value", "selectedYear", "selectedMonth", "selectedDay", "monthInput",
             "computedIso"}
Dep(f) ==
    CASE f = "value" -> value
      [] f = "selectedYear" -> selectedYear
      [] f = "selectedMonth" -> selectedMonth
      [] f = "selectedDay" -> selectedDay
      [] f = "monthInput" -> monthInput
      [] f = "computedIso" -> computedIso(selectedYear, selectedMonth, selectedDay)
Deps == [f \in DepNames |-> Dep(f)]

\* some dependency among fields differs from the previous render's (or there is none)
DepsChanged(fields) ==
    rendered = NotRendered \/ \E f \in fields : rendered[f] # Dep(f)

ClearSelection(s) ==
    [s EXCEPT !.selectedYear = Undefined, !.selectedMonth = Undefined,
              !.selectedDay = Undefined,
              !.yearInput = <<>>, !.monthInput = <<>>, !.dayInput = <<>>,
              !.yearFilter = <<>>, !.monthFilter = <<>>, !.dayFilter = <<>>]

ValueSyncEffect(r, acc) ==
    IF acc.internal /\ value = acc.last
    THEN [acc EXCEPT !.internal = FALSE]
    ELSE LET a == [acc EXCEPT !.internal = FALSE, !.last = value]
             parsed == parseIsoDate(value)
         IN  IF FalsyText(value) \/ parsed = NullParts
             THEN [a EXCEPT !.st = ClearSelection(a.st)]
             ELSE [a EXCEPT !.st = [a.st EXCEPT
                        !.selectedYear = parsed.year,
                        !.selectedMonth = parsed.month,
                        !.selectedDay = parsed.day,
                        !.yearInput = NumToString(parsed.year),
                        !.monthInput = monthLabelOr(parsed.month),
                        !.dayInput = NumToString(parsed.day)]]

MonthLabelEffect(r, acc) ==
    IF FalsyNum(r.selectedMonth) THEN acc
    ELSE LET label == monthLabel(monthOptions, r.selectedMonth)
         IN  IF ~FalsyText(label) /\ label # r.monthInput
             THEN [acc EXCEPT !.st.monthInput = label]
             ELSE acc

\* a month effect that leaves the month as it is
MonthClampEffect_Skip(r, acc) == acc

MonthClampEffect(r, acc) ==
    IF r.selectedYear = Undefined \/ r.selectedMonth = Undefined THEN acc
    ELSE LET maxMonth == getMaxMonthForYear(r.selectedYear, today)
         IN  IF r.selectedMonth > maxMonth
             THEN [acc EXCEPT !.st = setMonthSelection(acc.st, maxMonth)]
             ELSE acc

DayClampEffect(r, acc) ==
    IF r.selectedMonth = Undefined \/ r.selectedDay = Undefined THEN acc
    ELSE LET maxDay == getMaxDayForSelection(r.selectedYear, r.selectedMonth, today)
         IN  IF r.selectedDay > maxDay
             THEN [acc EXCEPT !.st = setDaySelection(acc.st, Undefined)]
             ELSE acc

EmitEffect(r, acc) ==
    LET iso == computedIso(r.selectedYear, r.selectedMonth, r.selectedDay)
        host == handleValueChange(iso, acc.cur, acc.ntf)
    IN  IF iso # acc.last
        THEN [acc EXCEPT !.last = iso, !.internal = TRUE,
                         !.cur = host[1], !.ntf = host[2],
                         !.emit = [iso |-> iso, year |-> r.selectedYear,
                                   month |-> r.selectedMonth, day |-> r.selectedDay]]
        ELSE acc

\* the component has no render or effect outstanding
Settled ==
    /\ rendered # NotRendered
    /\ rendered.value = value
    /\ rendered.selectedYear = selectedYear
    /\ rendered.selectedMonth = selectedMonth
    /\ rendered.selectedDay = selectedDay
    /\ rendered.monthInput = monthInput
    /\ rendered.computedIso = computedIso(selectedYear, selectedMonth, selectedDay)

\* A committed render and its effect pass: the effects whose dependencies changed
\* run in the order of their declaration, all with the state of this render; the
\* state they set is applied together afterwards.
Render ==
    /\ mounted
    /\ ~Settled
    /\ LET r == CompState
           a0 == [st |-> r, last |-> lastEmittedRef, internal |-> lastChangeWasInternalRef,
                  cur |-> currentValue, ntf |-> notified, emit |-> NoEmit]
           a1 == IF DepsChanged({"value"}) THEN ValueSyncEffect(r, a0) ELSE a0
           a2 == IF DepsChanged({"monthInput", "selectedMonth"})
                 THEN MonthLabelEffect(r, a1) ELSE a1
           a3 == IF DepsChanged({"selectedYear", "selectedMonth"})
                 THEN MonthClampEffect(r, a2) ELSE a2
           a4 == IF DepsChanged({"selectedYear", "selectedMonth", "selectedDay"})
                 THEN DayClampEffect(r, a3) ELSE a3
           a5 == IF DepsChanged({"computedIso"}) THEN EmitEffect(r, a4) ELSE a4
       IN  /\ SetCompState(a5.st)
           /\ lastEmittedRef' = a5.last
           /\ lastChangeWasInternalRef' = a5.internal
           /\ currentValue' = a5.cur
           /\ notified' = a5.ntf
           /\ emitted' = a5.emit
    /\ rendered' = Deps
    /\ UNCHANGED <<utilVars, raw, minYearRaw, mounted, propVars, focus>>

----------------------------------------------------------------------------
(* Host actions *)

\* updateView(context): the first call mounts the component
updateView ==
    /\ LET isoValue == dateToIso(raw)
       IN  /\ currentValue' = isoValue
           /\ value' = isoValue
           /\ lastEmittedRef' = IF mounted THEN lastEmittedRef ELSE isoValue
    /\ minYear' = hostMinYear(minYearRaw, today)
    /\ mounted' = TRUE
    /\ emitted' = NoEmit
    /\ UNCHANGED <<utilVars, raw, minYearRaw, notified, today, disabled, selVars,
                   inputVars, filterVars, lastChangeWasInternalRef, rendered, focus>>

\* The framework collects the outputs of a notification before it renders the
\* control again, and does so once the component has finished rendering.
HostUpdateView ==
    /\ mounted => Settled
    /\ ~notified
    /\ updateView

\* getOutputs(), its result stored in the bound column
getOutputs ==
    /\ raw' = toDateValue(currentValue)
    /\ notified' = FALSE
    /\ emitted' = NoEmit
    /\ UNCHANGED <<utilVars, minYearRaw, currentValue, mounted, propVars, selVars,
                   inputVars, filterVars, refVars, rendered, focus>>

\* the framework answers notifyOutputChanged
HostGetOutputs ==
    /\ notified
    /\ mounted => Settled
    /\ getOutputs

\* The framework answers an emission (getOutputs, updateView) as a scheduled task,
\* ahead of the next input event: the user and the form act on a host at rest.
HostQuiet == ~notified /\ value = dateToIso(raw)

\* the form changes the bound column, while the user is not in one of the inputs
HostSetRaw(d) ==
    /\ focus = "none" /\ mounted /\ Settled /\ HostQuiet
    /\ raw # d
    /\ raw' = d
    /\ emitted' = NoEmit
    /\ UNCHANGED <<utilVars, minYearRaw, currentValue, notified, mounted, propVars,
                   selVars, inputVars, filterVars, refVars, rendered, focus>>

----------------------------------------------------------------------------
(* User actions: the handlers of the three inputs and their option grids.  *)
(* An input receives change and key events only while it has the focus,   *)
(* and its blur handler runs when the focus leaves it; the buttons of an  *)
(* option grid can be clicked with the focus on their input or nowhere.   *)
(* Whether a popover is open has no effect on the selection and is not    *)
(* part of the state.                                                      *)

Interactive == mounted /\ ~disabled /\ ~notified /\ Settled /\ HostQuiet

UserStep(s, f) ==
    /\ SetCompState(s)
    /\ focus' = f
    /\ emitted' = NoEmit
    /\ UNCHANGED <<utilVars, hostVars, propVars, refVars, rendered>>

onYearInputChange(nextValue) ==
    /\ UserStep([CompState EXCEPT
            !.yearInput = nextValue, !.yearFilter = nextValue,
            !.selectedYear = IF nextValue = <<>> THEN Undefined ELSE @], focus)

onMonthInputChange(nextValue) ==
    /\ UserStep([CompState EXCEPT
            !.monthInput = nextValue, !.monthFilter = nextValue,
            !.selectedMonth = IF nextValue = <<>> THEN Undefined ELSE @], focus)

onDayInputChange(nextValue) ==
    /\ UserStep([CompState EXCEPT
            !.dayInput = nextValue, !.dayFilter = nextValue,
            !.selectedDay = IF nextValue = <<>> THEN Undefined ELSE @], focus)

onYearOptionSelect(year) == UserStep(setYearSelection(CompState, year), focus)

onMonthOptionSelect(month) == UserStep(setMonthSelection(CompState, month), focus)

onDayOptionSelect(day) == UserStep(setDaySelection(CompState, day), focus)

\* onChange of the three inputs
YearInputOnChange ==
    /\ focus = "year" /\ Interactive
    /\ \E t \in TypedYearTexts(today) : onYearInputChange(t)

MonthInputOnChange ==
    /\ focus = "month" /\ Interactive
    /\ \E t \in TypedMonthTexts : onMonthInputChange(t)

DayInputOnChange ==
    /\ ~dayDisabled /\ focus = "day" /\ Interactive
    /\ \E t \in TypedDayTexts : onDayInputChange(t)

\* onClick of a button of an option grid: the grid shows the filtered options
YearOptionOnClick ==
    /\ focus \in {"none", "year"} /\ Interactive
    /\ LET offered == filteredYears
       IN  \E i \in 1..Len(offered) : onYearOptionSelect(offered[i])

MonthOptionOnClick ==
    /\ focus \in {"none", "month"} /\ Interactive
    /\ LET offered == filteredMonths
       IN  \E i \in 1..Len(offered) :
              offered[i].value \in PickMonths /\ onMonthOptionSelect(offered[i].value)

DayOptionOnClick ==
    /\ focus \in {"none", "day"} /\ Interactive
    /\ LET offered == filteredDays
       IN  \E i \in 1..Len(offered) :
              offered[i] \in PickDays /\ onDayOptionSelect(offered[i])

commitYearInput(s, inputValue) ==
    LET parsed == parseNumericInput(inputValue)
    IN  IF parsed = Undefined THEN setYearSelection(s, Undefined)
        ELSE IF parsed < minYear \/ parsed > today.year THEN setYearSelection(s, Undefined)
        ELSE setYearSelection(s, parsed)

commitDayInput(s, inputValue) ==
    LET parsed == parseNumericInput(inputValue)
        maxDay == IF ~FalsyNum(s.selectedMonth)
                  THEN getMaxDayForSelection(s.selectedYear, s.selectedMonth, today)
                  ELSE 31
    IN  IF parsed = Undefined THEN setDaySelection(s, Undefined)
        ELSE IF parsed < 1 \/ parsed > maxDay THEN setDaySelection(s, Undefined)
        ELSE setDaySelection(s, parsed)

\* onKeyDown with Enter in the Year input
onYearEnter ==
    /\ focus = "year" /\ Interactive
    /\ UserStep(commitYearInput(CompState, yearInput), focus)

\* onKeyDown with Enter in the Day input
onDayEnter ==
    /\ ~dayDisabled /\ focus = "day" /\ Interactive
    /\ UserStep(commitDayInput(CompState, dayInput), focus)

handleYearBlur ==
    /\ focus = "year" /\ Interactive
    /\ UserStep(commitYearInput(CompState, yearInput), "none")

handleDayBlur ==
    /\ ~dayDisabled /\ focus = "day" /\ Interactive
    /\ UserStep(commitDayInput(CompState, dayInput), "none")

handleMonthBlur ==
    /\ focus = "month" /\ Interactive
    /\ UserStep([CompState EXCEPT
            !.monthInput = IF ~FalsyNum(selectedMonth) THEN monthLabelOr(selectedMonth)
                           ELSE <<>>,
            !.monthFilter = <<>>], "none")

\* a click on an input gives it the focus, opens its popover and shows every option
onYearOpenChange ==
    /\ focus \in {"none", "year"} /\ Interactive
    /\ UserStep([CompState EXCEPT !.yearFilter = <<>>], "year")

onMonthOpenChange ==
    /\ focus \in {"none", "month"} /\ Interactive
    /\ UserStep([CompState EXCEPT !.monthFilter = <<>>], "month")

onDayOpenChange ==
    /\ ~dayDisabled /\ focus \in {"none", "day"} /\ Interactive
    /\ UserStep([CompState EXCEPT !.dayFilter = <<>>], "day")

----------------------------------------------------------------------------
(* The control in its form *)

NoCall == /\ fn = "none" /\ args = <<>> /\ ret = <<>>

\* the control as constructed, before the first updateView
ControlInit ==
    /\ today \in Todays
    /\ raw \in ExternalDates(today)
    /\ minYearRaw \in {today.year - YearSpan, today.year + 1}
    /\ disabled \in BOOLEAN
    /\ currentValue = Null
    /\ notified = FALSE
    /\ mounted = FALSE
    /\ value = Null
    /\ minYear = hostMinYear(minYearRaw, today)
    /\ selectedYear = Undefined /\ selectedMonth = Undefined /\ selectedDay = Undefined
    /\ yearInput = <<>> /\ monthInput = <<>> /\ dayInput = <<>>
    /\ yearFilter = <<>> /\ monthFilter = <<>> /\ dayFilter = <<>>
    /\ lastEmittedRef = Null
    /\ lastChangeWasInternalRef = FALSE
    /\ rendered = NotRendered
    /\ focus = "none"
    /\ emitted = NoEmit

Init == NoCall /\ ControlInit

Next ==
    \/ Render
    \/ HostUpdateView
    \/ HostGetOutputs
    \/ \E d \in ExternalDates(today) : HostSetRaw(d)
    \/ YearInputOnChange
    \/ MonthInputOnChange
    \/ DayInputOnChange
    \/ YearOptionOnClick
    \/ MonthOptionOnClick
    \/ DayOptionOnClick
    \/ onYearEnter
    \/ onDayEnter
    \/ handleYearBlur
    \/ handleDayBlur
    \/ handleMonthBlur
    \/ onYearOpenChange
    \/ onMonthOpenChange
    \/ onDayOpenChange

Spec == Init /\ [][Next]_vars

\* The control on a column that is null and that only the control itself writes:
\* the user picks offered options and commits typed values, the framework answers.
InitUser == Init /\ raw = NullParts

NextUser ==
    \/ Render
    \/ HostUpdateView
    \/ HostGetOutputs
    \/ YearInputOnChange
    \/ MonthInputOnChange
    \/ DayInputOnChange
    \/ YearOptionOnClick
    \/ MonthOptionOnClick
    \/ DayOptionOnClick
    \/ onYearEnter
    \/ onDayEnter
    \/ handleYearBlur
    \/ handleDayBlur
    \/ handleMonthBlur
    \/ onYearOpenChange
    \/ onMonthOpenChange
    \/ onDayOpenChange

SpecUser == InitUser /\ [][NextUser]_vars

\* The exchange between component and host with the calls of the framework in any
\* order: updateView at any moment, with the bound value as it is then, getOutputs
\* at any moment after a notification.  The user clicks options on a control at rest.
InitEcho ==
    /\ Init
    /\ raw = NullParts /\ ~disabled /\ minYearRaw = today.year - YearSpan

UpdateViewAtAnyTime == updateView

GetOutputsAtAnyTime == notified /\ getOutputs

NextEcho ==
    \/ Render
    \/ UpdateViewAtAnyTime
    \/ GetOutputsAtAnyTime
    \/ YearOptionOnClick
    \/ MonthOptionOnClick
    \/ DayOptionOnClick

SpecEcho == InitEcho /\ [][NextEcho]_vars

\* nothing is outstanding between component and host
Quiescent == mounted /\ Settled /\ ~notified /\ value = dateToIso(raw)

\* C19: for any interleaving of emissions, getOutputs and updateView calls, the
\* exchange after a user action comes to rest with the host's currentValue equal to
\* the ISO text of the component's selection (null when partial); the value fed
\* back never resets or replaces the selection of the user, and
\* notifyOutputChanged fires only for a value that differs from currentValue.
\* the component is about to render with its own emission fed back as the value
EchoArrived ==
    /\ mounted /\ rendered # NotRendered /\ rendered.value # value
    /\ value = computedIso(selectedYear, selectedMonth, selectedDay)

C19_EchoKeepsSelection ==
    /\ [](Quiescent =>
            currentValue = computedIso(selectedYear, selectedMonth, selectedDay))
    /\ [][/\ (notified' /\ ~notified) => currentValue' # currentValue
          /\ EchoArrived => UNCHANGED selVars]_vars

\* the three parts of the statement, each on its own
C19_RestAgrees ==
    Quiescent => currentValue = computedIso(selectedYear, selectedMonth, selectedDay)

C19_NotifyOnlyOnChange ==
    [][(notified' /\ ~notified) => currentValue' # currentValue]_vars

C19_EchoLeavesSelection == [][EchoArrived => UNCHANGED selVars]_vars

\* C18: from a null bound value, with the user only picking offered options or
\* committing typed values, every value passed to onValueChange, those of an effect
\* pass in which a clamp is only scheduled included, is null or a date that exists
\* and is not after today: month <= maxMonthForYear, day <= maxDayForSelection.
C18_EmittedNotAfterToday ==
    (emitted # NoEmit /\ emitted.iso # Null) =>
        /\ emitted.iso = formatIsoDate(emitted.year, emitted.month, emitted.day)
        /\ emitted.month <= getMaxMonthForYear(emitted.year, today)
        /\ emitted.day <= getDaysInMonth(emitted.year, emitted.month)
        /\ emitted.day <= getMaxDayForSelection(emitted.year, emitted.month, today)

\* C1: the value handed to onValueChange is non-null only if year, month and day
\* are all selected at that moment; with one of them absent the output is null.
C1_OutputOnlyWhenComplete ==
    LET complete(y, m, d) == y # Undefined /\ m # Undefined /\ d # Undefined
    IN  /\ computedIso(selectedYear, selectedMonth, selectedDay) # Null
                => complete(selectedYear, selectedMonth, selectedDay)
        /\ (emitted # NoEmit /\ emitted.iso # Null)
                => complete(emitted.year, emitted.month, emitted.day)

\* the selected day exceeds the days allowed for the selected year and month
DayInExcess ==
    /\ mounted
    /\ selectedMonth # Undefined /\ selectedDay # Undefined
    /\ selectedDay > getMaxDayForSelection(selectedYear, selectedMonth, today)

\* C14: when a change of month or year leaves the selected day above the days
\* allowed for the new year and month, processing the change clamps the day to the
\* new maximum (31 becomes 30, Feb 29 becomes Feb 28) and the day stays selected.
C14_DayClampedToMaximum ==
    [][DayInExcess =>
          /\ selectedDay' # Undefined
          /\ selectedDay' = getMaxDayForSelection(selectedYear, selectedMonth, today)]_vars

\* C15: while no month is selected the Day field is disabled and no day can be
\* picked or committed, by option click, Enter or blur.
C15_NoDayWithoutMonth ==
    [][(mounted /\ selectedMonth = Undefined) =>
          /\ dayDisabled
          /\ selectedMonth' = Undefined => selectedDay' \in {selectedDay, Undefined}]_vars

\* C16: after any sequence of host value updates, option clicks and typed
\* commits, a selected year lies between the host-clamped minimum year and
\* today's year.
C16_SelectedYearInRange ==
    (mounted /\ selectedYear # Undefined) =>
        (minYear <= selectedYear /\ selectedYear <= today.year)

\* the selected month lies beyond the months allowed for the selected year
MonthInExcess ==
    /\ mounted
    /\ selectedYear # Undefined /\ selectedMonth # Undefined
    /\ selectedMonth > getMaxMonthForYear(selectedYear, today)

\* the selection respects the limits that today sets
WithinLimits ==
    /\ (selectedYear # Undefined /\ selectedMonth # Undefined)
            => selectedMonth <= getMaxMonthForYear(selectedYear, today)
    /\ (selectedMonth # Undefined /\ selectedDay # Undefined)
            => selectedDay <= getMaxDayForSelection(selectedYear, selectedMonth, today)

C1_Witness ==
    /\ emitted # NoEmit
    /\ emitted.iso = Null
    /\ emitted.year # Undefined /\ emitted.month # Undefined /\ emitted.day = Undefined
    /\ currentValue = Null /\ notified

----------------------------------------------------------------------------
(* The utilities on their own: the inputs of one call are drawn in the     *)
(* initial state, and an action applies the function to them.              *)

\* the control takes no part: it stays as constructed
ControlAtRest ==
    /\ ControlInit
    /\ raw = NullParts /\ minYearRaw = today.year - YearSpan /\ ~disabled

Call(name, result) ==
    /\ fn = "none"
    /\ fn' = name
    /\ ret' = result
    /\ UNCHANGED <<args, compVars>>

SeqToSet(s) == {s[i] : i \in 1..Len(s)}

(* --- formatIsoDate and parseIsoDate --- *)

\* how many characters may be added to a well-formed text
MaxExtraChars == 1

IsoYears == {1, 9, 10, 99, 100, 999, 1000, 1901, 2000, 2023, 2024, 9999}
IsoDates ==
    {[kind |-> "date", year |-> y, month |-> m, day |-> d] :
        y \in IsoYears, m \in 1..12, d \in 1..31}

YearTexts == {Chars("0000"), Chars("0001"), Chars("0999"), Chars("2023"), Chars("9999")}
MonthTexts == {Chars("00"), Chars("01"), Chars("02"), Chars("12"), Chars("13"), Chars("99")}
DayTexts == {Chars("00"), Chars("01"), Chars("30"), Chars("31"), Chars("32"), Chars("99")}
ShapedTexts == {y \o <<"-">> \o m \o <<"-">> \o d : y \in YearTexts, m \in MonthTexts, d \in DayTexts}
OddChars == {"-", "/", "a", " ", "7"}
\* a text with one character replaced, removed, or with characters added
Replaced(t) == {[t EXCEPT ![i] = c] : i \in 1..Len(t), c \in OddChars}
Removed(t) == {SubSeq(t, 1, i - 1) \o SubSeq(t, i + 1, Len(t)) : i \in 1..Len(t)}
RECURSIVE Extended(_, _)
Extended(t, n) ==
    IF n = 0 THEN {t}
    ELSE {t} \cup UNION {Extended(t \o <<c>>, n - 1) \cup Extended(<<c>> \o t, n - 1) :
                            c \in OddChars}
MalformedTexts ==
    LET base == {Chars("2023-02-30"), Chars("0001-12-31")}
    IN  {Null, <<>>, Chars("abc"), Chars("2024/01/01"), Chars("1-01-01")}
        \cup UNION {Replaced(t) \cup Removed(t) \cup Extended(t, MaxExtraChars) : t \in base}
IsoTexts == {[kind |-> "text", text |-> t] : t \in ShapedTexts \cup MalformedTexts}

InitIso ==
    /\ ControlAtRest
    /\ fn = "none" /\ ret = <<>>
    /\ args \in IsoDates \cup IsoTexts

\* parseIsoDate(formatIsoDate(year, month, day))
CallFormatThenParse ==
    /\ args.kind = "date"
    /\ LET text == formatIsoDate(args.year, args.month, args.day)
       IN  Call("formatIsoDate", [text |-> text, parts |-> parseIsoDate(text)])

CallParseIsoDate ==
    /\ args.kind = "text"
    /\ Call("parseIsoDate", parseIsoDate(args.text))

NextIso == CallFormatThenParse \/ CallParseIsoDate

SpecIso == InitIso /\ [][NextIso]_vars

DigitSet == {"0", "1", "2", "3", "4", "5", "6", "7", "8", "9"}
\* the number a run of decimal digits of t denotes, read position by position
DigitAt(t, i) ==
    CASE t[i] = "0" -> 0 [] t[i] = "1" -> 1 [] t[i] = "2" -> 2 [] t[i] = "3" -> 3
      [] t[i] = "4" -> 4 [] t[i] = "5" -> 5 [] t[i] = "6" -> 6 [] t[i] = "7" -> 7
      [] t[i] = "8" -> 8 [] t[i] = "9" -> 9
Number2(t, i) == 10 * DigitAt(t, i) + DigitAt(t, i + 1)
Number4(t, i) == 100 * Number2(t, i) + Number2(t, i + 2)
\* four digits, '-', two digits, '-', two digits
HasIsoShape(t) ==
    /\ t # Null
    /\ Len(t) = 10
    /\ \A i \in {1, 2, 3, 4, 6, 7, 9, 10} : t[i] \in DigitSet
    /\ t[5] = "-" /\ t[8] = "-"

\* C2: for every year 1..9999 (years below 1000 included), month 1..12 and day
\* 1..daysInMonth, parseIsoDate(formatIsoDate(y, m, d)) is {y, m, d} and
\* formatIsoDate(y, m, d) is a fixed-width text of 10 characters.
C2_RoundTripAllYears ==
    (fn = "formatIsoDate" /\ args.day <= getDaysInMonth(args.year, args.month))
        => /\ ret.parts = DateParts(args.year, args.month, args.day)
           /\ Len(ret.text) = 10

\* C7: parseIsoDate(text) is non-null exactly when text is four digits, '-', two
\* digits, '-', two digits with a non-zero year, month 1..12 and day 1..31; it then
\* holds those three numbers, whatever the month's length; anything else gives null.
C7_ParseIsoDateAccepts ==
    fn = "parseIsoDate" =>
        LET t == args.text
            accepted == /\ HasIsoShape(t)
                        /\ Number4(t, 1) # 0
                        /\ Number2(t, 6) \in 1..12
                        /\ Number2(t, 9) \in 1..31
        IN  IF accepted
            THEN ret = DateParts(Number4(t, 1), Number2(t, 6), Number2(t, 9))
            ELSE ret = NullParts

\* a day impossible for its month is accepted
C7_Witness ==
    /\ fn = "parseIsoDate"
    /\ args.text = Chars("2023-02-30")
    /\ ret = DateParts(2023, 2, 30)

----------------------------------------------------------------------------
(* --- the calendar, the range policy, the year options, availability --- *)

\* years -LeapReach..LeapReach are tried, besides the named ones
LeapReach == 400
\* minYear and maxYear lie within YearReach of 0 and of DEFAULT_MIN_YEAR
YearReach == 3

CalendarYears == ((0 - LeapReach)..LeapReach) \cup {1900, 2000, 2001, 2023, 2024, 2100}
CalendarInputs == {[kind |-> "ym", year |-> y, month |-> m] : y \in CalendarYears, m \in 1..12}

RangeTodays ==
    {DateParts(y, m, d) : y \in {FALLBACK_YEAR, 2024}, m \in 1..12, d \in {1, 10, 28, 29, 30, 31}}
        \ {t \in [year : {FALLBACK_YEAR, 2024}, month : 1..12, day : 28..31] :
                t.day > getDaysInMonth(t.year, t.month)}
RangeYears == {Undefined, 2000, FALLBACK_YEAR, 2023, 2024}
RangeInputs ==
    {[kind |-> "sel", selectedYear |-> y, selectedMonth |-> m, today |-> t] :
        y \in RangeYears, m \in {Undefined} \cup (1..12), t \in RangeTodays}

YearInputs ==
    LET near(c) == (c - YearReach)..(c + YearReach)
        pairs(c) == {[kind |-> "years", minYear |-> a, maxYear |-> b] :
                        a \in near(c), b \in near(c)}
    IN  pairs(0) \cup pairs(DEFAULT_MIN_YEAR)

RECURSIVE Reverse(_)
Reverse(s) == IF s = <<>> THEN <<>> ELSE Reverse(Tail(s)) \o <<Head(s)>>
MonthLists ==
    LET twelve == buildMonthOptions("en-AU", Null)
    IN  {twelve, Reverse(twelve), <<>>,
         <<twelve[12], twelve[3], twelve[7], twelve[3], twelve[1]>>}
MonthInputs ==
    {[kind |-> "months", options |-> o, selectedYear |-> y, today |-> t] :
        o \in MonthLists, y \in RangeYears,
        t \in {u \in RangeTodays : u.day = 10}}

InitRange ==
    /\ ControlAtRest
    /\ fn = "none" /\ ret = <<>>
    /\ args \in CalendarInputs \cup RangeInputs \cup YearInputs \cup MonthInputs

CallIsLeapYear ==
    /\ args.kind = "ym"
    /\ Call("isLeapYear", isLeapYear(args.year))

CallGetDaysInMonth ==
    /\ args.kind = "ym"
    /\ Call("getDaysInMonth", getDaysInMonth(args.year, args.month))

CallGetMaxMonthForYear ==
    /\ args.kind = "sel"
    /\ Call("getMaxMonthForYear", getMaxMonthForYear(args.selectedYear, args.today))

CallGetMaxDayForSelection ==
    /\ args.kind = "sel"
    /\ Call("getMaxDayForSelection",
            getMaxDayForSelection(args.selectedYear, args.selectedMonth, args.today))

CallGetAvailableDays ==
    /\ args.kind = "sel"
    /\ Call("getAvailableDays",
            getAvailableDays(args.selectedYear, args.selectedMonth, args.today))

CallGetAvailableMonths ==
    /\ args.kind = "months"
    /\ Call("getAvailableMonths",
            getAvailableMonths(args.options, args.selectedYear, args.today))

CallBuildYearOptions ==
    /\ args.kind = "years"
    /\ Call("buildYearOptions", buildYearOptions(args.minYear, args.maxYear))

NextRange ==
    \/ CallIsLeapYear
    \/ CallGetDaysInMonth
    \/ CallGetMaxMonthForYear
    \/ CallGetMaxDayForSelection
    \/ CallGetAvailableDays
    \/ CallGetAvailableMonths
    \/ CallBuildYearOptions

SpecRange == InitRange /\ [][NextRange]_vars

\* r is s from a down to b, one by one
IsDescendingRun(r, a, b) ==
    /\ Len(r) = a - b + 1
    /\ \A i \in 1..Len(r) : r[i] = a - (i - 1)
    /\ \A i \in 1..(Len(r) - 1) : r[i] > r[i + 1]

\* C3 as stated: for all minYear and maxYear, minYear > maxYear included,
\* buildYearOptions runs from max(minYear, maxYear) down to min(minYear, maxYear).
C3_YearsFromTheLarger ==
    fn = "buildYearOptions" =>
        IsDescendingRun(ret, Max(args.minYear, args.maxYear), Min(args.minYear, args.maxYear))

\* C3 amended: buildYearOptions runs from maxYear down to min(minYear, maxYear),
\* one by one and strictly descending; for minYear > maxYear it is maxYear alone.
C3_YearsFromMaxYear ==
    fn = "buildYearOptions" =>
        /\ IsDescendingRun(ret, args.maxYear, Min(args.minYear, args.maxYear))
        /\ args.minYear > args.maxYear => ret = <<args.maxYear>>

\* a minimum year beyond the maximum year
C3_Witness ==
    /\ fn = "buildYearOptions"
    /\ args.minYear = DEFAULT_MIN_YEAR + 2 /\ args.maxYear = DEFAULT_MIN_YEAR
    /\ ret = <<DEFAULT_MIN_YEAR>>

\* C4 as stated: the day limit is clamped to today's day whenever the effective
\* year (the selected one, or the fallback year when none is selected) and the
\* month are today's.
C4_ClampOnEffectiveYear ==
    fn = "getMaxDayForSelection" =>
        IF args.selectedMonth = Undefined THEN ret = 31
        ELSE LET effectiveYear == IF args.selectedYear = Undefined THEN FALLBACK_YEAR
                                  ELSE args.selectedYear
                 days == getDaysInMonth(effectiveYear, args.selectedMonth)
             IN  IF effectiveYear = args.today.year /\ args.selectedMonth = args.today.month
                 THEN ret = Min(args.today.day, days)
                 ELSE ret = days

\* C4 amended: 31 without a month; otherwise the days of the month in the effective
\* year, clamped to today's day only when a year is selected and the selected year
\* and month are today's: with no year selected nothing is clamped, even when
\* today's year is the fallback year.
C4_ClampOnSelectedYear ==
    fn = "getMaxDayForSelection" =>
        IF args.selectedMonth = Undefined THEN ret = 31
        ELSE LET effectiveYear == IF args.selectedYear = Undefined THEN FALLBACK_YEAR
                                  ELSE args.selectedYear
                 days == getDaysInMonth(effectiveYear, args.selectedMonth)
             IN  IF /\ args.selectedYear # Undefined
                    /\ args.selectedYear = args.today.year
                    /\ args.selectedMonth = args.today.month
                 THEN ret = Min(args.today.day, days)
                 ELSE ret = days

\* no year selected, today in the fallback year and in the selected month
C4_Witness ==
    /\ fn = "getMaxDayForSelection"
    /\ args.selectedYear = Undefined
    /\ args.today = DateParts(FALLBACK_YEAR, 6, 10)
    /\ args.selectedMonth = 6
    /\ ret = 30

\* C5: maxMonthForYear is 12 with no year selected, today's month for today's
\* year, and 12 for every other year.
C5_MaxMonthForYear ==
    fn = "getMaxMonthForYear" =>
        ret = (IF args.selectedYear = Undefined THEN 12
               ELSE IF args.selectedYear = args.today.year THEN args.today.month
               ELSE 12)

C5_Witness ==
    /\ fn = "getMaxMonthForYear"
    /\ args.selectedYear = args.today.year
    /\ args.today.month = 6
    /\ ret = 6

\* y is divisible by 400, or by 4 and not by 100
Gregorian(y) == y % 400 = 0 \/ (y % 4 = 0 /\ y % 100 # 0)

\* C6: daysInMonth is 31 for months 1, 3, 5, 7, 8, 10, 12, 30 for 4, 6, 9, 11, and
\* for February 29 exactly in a leap year (divisible by 400, or by 4 and not by
\* 100) and 28 otherwise, for every integer year.
C6_DaysInMonth ==
    /\ fn = "isLeapYear" => (ret <=> Gregorian(args.year))
    /\ fn = "getDaysInMonth" =>
            ret = (IF args.month \in {1, 3, 5, 7, 8, 10, 12} THEN 31
                   ELSE IF args.month \in {4, 6, 9, 11} THEN 30
                   ELSE IF Gregorian(args.year) THEN 29 ELSE 28)

\* February of a century year that is not a leap year
C6_Witness ==
    /\ fn = "getDaysInMonth"
    /\ args.year = 1900 /\ args.month = 2
    /\ ret = 28

\* the positions of s whose element satisfies Keep, and r as s restricted to them
IsSelection(r, s, Keep(_)) ==
    LET kept == {i \in 1..Len(s) : Keep(s[i])}
    IN  /\ Len(r) = Cardinality(kept)
        /\ \A i \in kept : r[Cardinality({j \in kept : j <= i})] = s[i]

\* C8: availableMonths is the options of allMonths with value <= maxMonthForYear,
\* in their order; of the twelve months the last is today's month when the
\* selected year is today's, and December otherwise.
C8_AvailableMonths ==
    fn = "getAvailableMonths" =>
        LET maxMonth == getMaxMonthForYear(args.selectedYear, args.today)
            Keep(o) == o.value <= maxMonth
        IN  /\ IsSelection(ret, args.options, Keep)
            /\ args.options = buildMonthOptions("en-AU", Null) =>
                    ret[Len(ret)].value =
                        (IF args.selectedYear = args.today.year THEN args.today.month
                         ELSE 12)

\* the months of today's year stop at today's month
C8_Witness ==
    /\ fn = "getAvailableMonths"
    /\ args.options = buildMonthOptions("en-AU", Null)
    /\ args.selectedYear = 2024 /\ args.today = DateParts(2024, 6, 10)
    /\ Len(ret) = 6 /\ ret[6].value = 6

\* C9: availableDays is 1..31 without a month, and otherwise
\* 1..maxDayForSelection, ascending, without gaps or duplicates.
C9_AvailableDays ==
    fn = "getAvailableDays" =>
        LET last == IF args.selectedMonth = Undefined THEN 31
                    ELSE getMaxDayForSelection(args.selectedYear, args.selectedMonth,
                                               args.today)
        IN  /\ Len(ret) = last
            /\ \A i \in 1..Len(ret) : ret[i] = i

\* the days of today's month stop at today
C9_Witness ==
    /\ fn = "getAvailableDays"
    /\ args.selectedYear = 2024 /\ args.selectedMonth = 6
    /\ args.today = DateParts(2024, 6, 10)
    /\ ret = <<1, 2, 3, 4, 5, 6, 7, 8, 9, 10>>

-----------------------------------------------------------------------------
(* --- filterMonthOptions, filterNumberOptions, filterYearOptions --- *)

FilterQueries ==
    {Chars(q) : q \in {"", " ", "  ", "\t ", " \n", "3", " 3 ", "1", "0", "31", "19",
                       "19 ", "90", "1 9", "ma", "MA", " Ma", "ar", "J", "zz"}}
NumberLists ==
    {[i \in 1..31 |-> i], <<>>, <<31, 3, 13, 3, 130, 7>>, YearLoop(1905, 1901)}
YearLists ==
    {YearLoop(1905, 1901), <<>>, <<1901, 2019, 190, 19, 1901, 3, 1190>>,
     YearLoop(2024, 1990)}
FilterInputs ==
    {[kind |-> k, options |-> o, input |-> q] :
        k \in {"filterMonths"}, o \in MonthLists, q \in FilterQueries}
    \cup {[kind |-> k, numbers |-> o, input |-> q] :
        k \in {"filterNumbers"}, o \in NumberLists, q \in FilterQueries}
    \cup {[kind |-> k, numbers |-> o, input |-> q] :
        k \in {"filterYears"}, o \in YearLists, q \in FilterQueries}

InitFilter ==
    /\ ControlAtRest
    /\ fn = "none" /\ ret = <<>>
    /\ args \in FilterInputs

CallFilterMonthOptions ==
    /\ args.kind = "filterMonths"
    /\ Call("filterMonthOptions", filterMonthOptions(args.options, args.input))

CallFilterNumberOptions ==
    /\ args.kind = "filterNumbers"
    /\ Call("filterNumberOptions", filterNumberOptions(args.numbers, args.input))

CallFilterYearOptions ==
    /\ args.kind = "filterYears"
    /\ Call("filterYearOptions", filterYearOptions(args.numbers, args.input))

NextFilter ==
    \/ CallFilterMonthOptions
    \/ CallFilterNumberOptions
    \/ CallFilterYearOptions

SpecFilter == InitFilter /\ [][NextFilter]_vars

FilterNames == {"filterMonthOptions", "filterNumberOptions", "filterYearOptions"}
\* the option list the filter was called with
FilterOptions == IF args.kind = "filterMonths" THEN args.options ELSE args.numbers

\* r can be obtained from s by dropping elements, keeping the order of the rest
RECURSIVE IsSubsequence(_, _)
IsSubsequence(r, s) ==
    IF r = <<>> THEN TRUE
    ELSE IF s = <<>> THEN FALSE
    ELSE IF Head(r) = Head(s) THEN IsSubsequence(Tail(r), Tail(s))
    ELSE IsSubsequence(r, Tail(s))

\* C10: each of the three filters returns its input unchanged for an empty or
\* whitespace-only query, and for any query returns a subsequence of its input
\* in the input's order.
C10_FiltersKeepOrder ==
    fn \in FilterNames =>
        /\ (\A i \in 1..Len(args.input) : IsSpace(args.input[i])) => ret = FilterOptions
        /\ IsSubsequence(ret, FilterOptions)

\* a query of blanks leaves the 31 days as they are
C10_Witness ==
    /\ fn = "filterNumberOptions"
    /\ args.input = <<"\t", " ">>
    /\ Len(args.numbers) = 31
    /\ ret = args.numbers

\* text t has q at position k (from 0)
HasAt(t, q, k) == k + Len(q) <= Len(t) /\ \A j \in 1..Len(q) : t[k + j] = q[j]
\* r is what is left of s when exactly the elements at the positions kept stay
IsExactly(r, s, kept) ==
    /\ IsSubsequence(r, s)
    /\ Len(r) = Cardinality(kept)
    /\ \A i \in 1..Len(s) : (\E j \in 1..Len(r) : r[j] = s[i]) => \E k \in kept : s[k] = s[i]

\* C11: with a non-empty trimmed query q, filterYearOptions keeps exactly the
\* values whose decimal text starts with q, in the input's order: a value with q
\* only at a later position is dropped; on 1905..1901 with "19" it keeps all five.
C11_YearPrefixMatch ==
    (fn = "filterYearOptions" /\ Trim(args.input) # <<>>) =>
        LET q == Trim(args.input)
            kept == {i \in 1..Len(args.numbers) : HasAt(NatToString(args.numbers[i]), q, 0)}
        IN  /\ IsExactly(ret, args.numbers, kept)
            /\ (args.numbers = buildYearOptions(1901, 1905) /\ args.input = Chars("19"))
                    => ret = <<1905, 1904, 1903, 1902, 1901>>

\* 2019 and 1190 hold "19" at a later position and are dropped
C11_Witness ==
    /\ fn = "filterYearOptions"
    /\ args.numbers = <<1901, 2019, 190, 19, 1901, 3, 1190>>
    /\ args.input = Chars("19 ")
    /\ ret = <<1901, 190, 19, 1901>>

\* C12: with a non-empty trimmed query q, filterNumberOptions keeps exactly the
\* values whose decimal text holds q at any position, in the input's order; on
\* 1..31 with "3" it is 3, 13, 23, 30, 31.
C12_NumberSubstringMatch ==
    (fn = "filterNumberOptions" /\ Trim(args.input) # <<>>) =>
        LET q == Trim(args.input)
            text(i) == NatToString(args.numbers[i])
            kept == {i \in 1..Len(args.numbers) :
                        \E k \in 0..Len(text(i)) : HasAt(text(i), q, k)}
        IN  /\ IsExactly(ret, args.numbers, kept)
            /\ (Len(args.numbers) = 31 /\ args.input = Chars("3"))
                    => ret = <<3, 13, 23, 30, 31>>

\* the days with a 3 in them
C12_Witness ==
    /\ fn = "filterNumberOptions"
    /\ args.numbers = [i \in 1..31 |-> i]
    /\ args.input = Chars(" 3 ")
    /\ ret = <<3, 13, 23, 30, 31>>

-----------------------------------------------------------------------------
(* --- buildMonthOptions --- *)

\* the longest list of month names the host supplies
MaxNames == 13
SuppliedName(i) == <<"M">> \o NatToString(i)
BlankNames == {<<>>, <<" ">>, <<"\t", "\n">>}
\* n supplied names, the one at position p replaced by b
NameList(n, p, b) == [i \in 1..n |-> IF i = p THEN b ELSE SuppliedName(i)]
NameLists ==
    {NameList(n, p, b) : n \in {0, 1, 11, 12, MaxNames}, p \in {0, 1, 3, 12, 13},
                         b \in BlankNames}
MonthLocales == {"en-AU", "fr-FR", "xx-invalid"}
BuildMonthInputs ==
    {[kind |-> "buildMonths", locale |-> l, monthNames |-> n] :
        l \in MonthLocales, n \in NameLists}
    \cup {[kind |-> "buildMonthsDefault", locale |-> l] : l \in MonthLocales}

InitMonths ==
    /\ ControlAtRest
    /\ fn = "none" /\ ret = <<>>
    /\ args \in BuildMonthInputs

\* buildMonthOptions(locale, monthNames)
CallBuildMonthOptions ==
    /\ args.kind = "buildMonths"
    /\ Call("buildMonthOptions", buildMonthOptions(args.locale, args.monthNames))

\* buildMonthOptions(locale)
CallBuildMonthOptionsDefault ==
    /\ args.kind = "buildMonthsDefault"
    /\ Call("buildMonthOptions", buildMonthOptions(args.locale, Null))

NextMonths ==
    \/ CallBuildMonthOptions
    \/ CallBuildMonthOptionsDefault

SpecMonths == InitMonths /\ [][NextMonths]_vars

\* the formatter's name of month i for the locale of the call
FormatterName(i) ==
    IntlMonthNames[IF args.locale \in DOMAIN IntlMonthNames THEN args.locale
                   ELSE "en-AU"][i]
IsBlank(t) == \A k \in 1..Len(t) : IsSpace(t[k])

\* C13: buildMonthOptions returns exactly 12 options with values 1..12 ascending;
\* with at least 12 names supplied, option i carries the i-th name unless it is
\* empty or blank, then the formatter's name, and names past the 12th are ignored;
\* with no names or fewer than 12, every label is the formatter's name.
C13_MonthOptions ==
    fn = "buildMonthOptions" =>
        /\ Len(ret) = 12
        /\ \A i \in 1..12 : ret[i].value = i
        /\ IF args.kind = "buildMonths" /\ Len(args.monthNames) >= 12
           THEN \A i \in 1..12 :
                    ret[i].label = IF IsBlank(args.monthNames[i]) THEN FormatterName(i)
                                   ELSE args.monthNames[i]
           ELSE \A i \in 1..12 : ret[i].label = FormatterName(i)

\* thirteen names with a blank third one: March from the formatter, the 13th unused
C13_Witness ==
    /\ fn = "buildMonthOptions"
    /\ args.kind = "buildMonths" /\ args.locale = "en-AU"
    /\ Len(args.monthNames) = 13 /\ args.monthNames[3] = <<" ">>
    /\ ret[3].label = Chars("March")
    /\ ret[4].label = SuppliedName(4)
    /\ Len(ret) = 12

====
